---- MODULE Spec2Model ----
(***************************************************************************)
(* The AI-request gateway of WOD-wise (supabase/functions/claude-proxy)    *)
(* together with the api_usage ledger of the migration                     *)
(* 20250120_add_api_usage.sql.                                             *)
(*                                                                         *)
(* Every gateway invocation is one run of the serve handler.  The handler  *)
(* is split at its awaits on external services: auth.getUser, the profile  *)
(* read, the usage read, the fetch of the model backend and the            *)
(* increment_api_usage rpc.  The code between two such awaits runs to      *)
(* completion and is one step of the model; in particular the date that    *)
(* incrementUsage takes (index.ts:57) is the date at which the model       *)
(* backend answered.                                                       *)
(*                                                                         *)
(* The client is one call of withRetry (lib/retry.ts), either around a     *)
(* wrapped function given by the sequence of what its calls settle with,   *)
(* or as callEdgeFunction runs it: around fetchWithTimeout to the gateway, *)
(* with maxRetries 2.  A step of the gateway that answers the request of   *)
(* the running fetch hands the response to the client in the same step.    *)
(*                                                                         *)
(* calculateDelay is applied on its own to attempt indices, delay options  *)
(* and jitter draws.  The replace-whole-set saves of the client            *)
(* (saveMovementSkills, saveStrengthNumbers) run one at a time against     *)
(* their tables; names are sequences of characters, so that the list of    *)
(* the cleanup filter is written and read back character by character.     *)
(***************************************************************************)
EXTENDS Integers, Sequences, FiniteSets, TLC

\* ---- bounds of the model ----
NumUsers == 1
NumProcs == 2
MaxDate == 2
MaxInvocations == 2
\* the largest maxRetries option withRetry is run with
MaxMaxRetries == 2
\* the largest attempt index calculateDelay is called with
MaxAttempt == 5
\* Math.random() returns r / RandomSteps for an r in 0..RandomSteps - 1
RandomSteps == 10
\* the largest number of elements a save is called with
MaxInput == 2

\* ---- program constants ----
FREE_TIER_DAILY_LIMIT == 5
PRO_TIER_DAILY_LIMIT == 100
\* DEFAULT_OPTIONS.retryableStatuses
RetryableStatuses == {408, 429, 500, 502, 503, 504}
\* the maxRetries option callEdgeFunction passes to withRetry
EdgeMaxRetries == 2

Users == 1..NumUsers
Procs == 1..NumProcs
Dates == 1..MaxDate

\* SQL NULL / JS null or undefined in a tier column
NULL == "NULL"
\* values the profiles.subscription_tier column is read as
TierValues == {"pro", "free", "Pro", NULL}

\* the Authorization header of a request: absent, a token the identity
\* provider rejects, or a token of user u (encoded as u)
NoHeader == -1
BadToken == 0
AuthHeaders == {NoHeader, BadToken} \cup Users
NoUser == 0
NoDate == 0

\* the JSON body of a request (ClaudeRequest); json = FALSE is a body that
\* req.json() cannot parse
MkBody(j, a, i, m, w) ==
  [json |-> j, action |-> a, imageBase64 |-> i, mimeType |-> m, workout |-> w]
NoBody == MkBody(FALSE, "", FALSE, FALSE, FALSE)
Bodies ==
  {MkBody(TRUE, "parse_wod", i, m, FALSE) : i \in BOOLEAN, m \in BOOLEAN}
  \cup {MkBody(TRUE, "generate_strategy", FALSE, FALSE, w) : w \in BOOLEAN}
  \cup {MkBody(TRUE, "delete_all", FALSE, FALSE, FALSE)}
  \cup {MkBody(FALSE, "", FALSE, FALSE, FALSE)}

\* ---- the text the model backend answers with ----
\* a text is a sequence of tokens: "{" and "}" are braces, "k" is one
\* well-formed member list ("a": 1), "s" is prose without braces
ModelTexts ==
  { <<"{", "k", "}">>,
    <<"s", "{", "k", "}", "s">>,
    <<"s">>,
    <<>>,
    <<"s", "{", "s", "}">>,
    <<"}", "s", "{">>,
    <<"s", "{", "k", "}", "s", "}">>,
    <<"{", "k", "}", "s", "{", "k", "}">> }

NoMatch == <<"nomatch">>

Positions(text, tok) == {i \in 1..Len(text) : text[i] = tok}
SetMin(S) == CHOOSE x \in S : \A y \in S : x <= y
SetMax(S) == CHOOSE x \in S : \A y \in S : x >= y

\* response.match(/\{[\s\S]*\}/): the span from the first "{" to the last
\* "}" after it (the star is greedy), or no match
JsonMatch(text) ==
  LET opens == Positions(text, "{")
  IN IF opens = {} THEN NoMatch
     ELSE LET first == SetMin(opens)
              closes == {j \in Positions(text, "}") : j > first}
          IN IF closes = {} THEN NoMatch
             ELSE SubSeq(text, first, SetMax(closes))

\* JSON.parse of a span accepts {} and { members }
JsonParses(span) ==
  \/ span = <<"{", "}">>
  \/ span = <<"{", "k", "}">>

\* ---- the api_usage table ----
\* a row is [id, user_id, date, request_count]
RECURSIVE SumCounts(_)
SumCounts(S) ==
  IF S = {} THEN 0
  ELSE LET r == CHOOSE x \in S : TRUE
       IN r.request_count + SumCounts(S \ {r})

RowsOf(led, u, d) == {r \in led : r.user_id = u /\ r.date = d}
\* the count stored for a key
Count(led, u, d) == SumCounts(RowsOf(led, u, d))

\* mutant of increment_api_usage: the conflict branch stores the inserted
\* value (request_count = EXCLUDED.request_count)
increment_api_usage_Excluded(led, id, p_user_id, p_date) ==
  IF RowsOf(led, p_user_id, p_date) = {}
  THEN led \cup {[id |-> id, user_id |-> p_user_id, date |-> p_date,
                  request_count |-> 1]}
  ELSE {IF r.user_id = p_user_id /\ r.date = p_date
        THEN [r EXCEPT !.request_count = 1] ELSE r : r \in led}

\* mutant of increment_api_usage: a plain INSERT without the conflict clause
\* on a table without the unique constraint
increment_api_usage_PlainInsert(led, id, p_user_id, p_date) ==
  led \cup {[id |-> id, user_id |-> p_user_id, date |-> p_date,
             request_count |-> 1]}

\* INSERT ... VALUES (p_user_id, p_date, 1) ON CONFLICT (user_id, date)
\* DO UPDATE SET request_count = api_usage.request_count + 1
increment_api_usage(led, id, p_user_id, p_date) ==
  IF RowsOf(led, p_user_id, p_date) = {}
  THEN led \cup {[id |-> id, user_id |-> p_user_id, date |-> p_date,
                  request_count |-> 1]}
  ELSE {IF r.user_id = p_user_id /\ r.date = p_date
        THEN [r EXCEPT !.request_count = @ + 1] ELSE r : r \in led}

\* .from("api_usage").select("request_count").eq(...).eq(...).single():
\* data is null on an error and unless exactly one row matches
NullUsage == [null |-> TRUE, request_count |-> 0]
\* mutant of SelectUsage: the filter on the date is missing
SelectUsage_AnyDate(led, u, d, readError) ==
  LET rows == {r \in led : r.user_id = u}
  IN IF readError \/ Cardinality(rows) # 1 THEN NullUsage
     ELSE [null |-> FALSE,
           request_count |-> (CHOOSE r \in rows : TRUE).request_count]

SelectUsage(led, u, d, readError) ==
  LET rows == RowsOf(led, u, d)
  IN IF readError \/ Cardinality(rows) # 1 THEN NullUsage
     ELSE [null |-> FALSE,
           request_count |-> (CHOOSE r \in rows : TRUE).request_count]

\* .from("profiles").select("subscription_tier").eq("id", userId).single():
\* data is null on an error and when no row matches
NullProfile == [null |-> TRUE, subscription_tier |-> NULL]
SelectProfile(prof, u, readError) ==
  IF readError \/ u \notin DOMAIN prof THEN NullProfile
  ELSE [null |-> FALSE, subscription_tier |-> prof[u]]

\* ---- checkRateLimit ----
\* profile?.subscription_tier || "free"
TierOf(profile) ==
  IF profile.null \/ profile.subscription_tier = NULL
     \/ profile.subscription_tier = ""
  THEN "free" ELSE profile.subscription_tier

\* mutant of DailyLimit: the tier is compared without regard to case
DailyLimit_AnyCase(tier) ==
  IF tier \in {"pro", "Pro"} THEN PRO_TIER_DAILY_LIMIT
  ELSE FREE_TIER_DAILY_LIMIT

\* tier === "pro" ? PRO_TIER_DAILY_LIMIT : FREE_TIER_DAILY_LIMIT
DailyLimit(tier) ==
  IF tier = "pro" THEN PRO_TIER_DAILY_LIMIT ELSE FREE_TIER_DAILY_LIMIT

\* mutant of CurrentCount: a read without data counts as the ceiling
CurrentCount_FailClosed(usage) ==
  IF usage.null THEN PRO_TIER_DAILY_LIMIT ELSE usage.request_count

\* usage?.request_count || 0
CurrentCount(usage) ==
  IF usage.null \/ usage.request_count = 0 THEN 0 ELSE usage.request_count

Max(a, b) == IF a >= b THEN a ELSE b

\* Math.max(0, dailyLimit - currentCount)
Remaining(currentCount, dailyLimit) == Max(0, dailyLimit - currentCount)

\* mutant of Allowed: the comparison admits a count at the ceiling
Allowed_Inclusive(currentCount, dailyLimit) == currentCount <= dailyLimit

\* allowed: currentCount < dailyLimit
Allowed(currentCount, dailyLimit) == currentCount < dailyLimit

\* ---- state ----
VARIABLES
  inv,          \* inv[p]: the handler invocation running in slot p
  last,         \* the invocation the latest step answered, as it ended (else Idle)
  api_usage,    \* the rows of the api_usage table
  nextId,       \* the next api_usage.id to hand out
  profiles,     \* profiles[u]: the subscription_tier column of user u
  clock,        \* the current UTC calendar date
  started,      \* number of invocations received so far
  prior,        \* prior[u][d]: request_count of (u, d) when the model starts
  backendOk,    \* backendOk[u][d]: model-backend calls for u answered ok on d
  rpcApplied,   \* rpcApplied[u][d]: executions of increment_api_usage(u, d)
  cl,           \* the client: one call of withRetry / callEdgeFunction
  tables,       \* tables[t]: the rows of movement_skills / strength_numbers
  save          \* the client: one call of saveMovementSkills / saveStrengthNumbers

\* the state of the gateway and of the database
gvars == <<inv, last, api_usage, nextId, profiles, clock, started,
           prior, backendOk, rpcApplied>>

\* the tables of the replace-whole-set saves and the running save
svars == <<tables, save>>

vars == <<inv, last, api_usage, nextId, profiles, clock, started,
          prior, backendOk, rpcApplied, cl, tables, save>>

\* the local state of one invocation of the serve handler
NewInv(auth) ==
  [pc |-> "getUser", authHeader |-> auth, user |-> NoUser, today |-> NoDate,
   profileNull |-> FALSE, dailyLimit |-> 0, currentCount |-> 0, allowed |-> FALSE,
   remaining |-> 0, body |-> NoBody, p_date |-> NoDate,
   status |-> 0, error |-> "", hasRemaining |-> FALSE, respRemaining |-> 0,
   data |-> NoMatch,
   \* history of the invocation, for the properties
   reads |-> 0, calls |-> 0, charged |-> 0, gotOk |-> FALSE, parsed |-> FALSE,
   text |-> <<>>]

Idle == [NewInv(NoHeader) EXCEPT !.pc = "idle"]

InFlight(s) == s.pc \notin {"idle", "done"}

\* return new Response(JSON.stringify({ error }), { status })
Respond(s, status, error) ==
  [s EXCEPT !.pc = "done", !.status = status, !.error = error]

\* mutant of RespondRateLimited: remaining is computed from the count read,
\* without the clamp at 0
RespondRateLimited_Computed(s) ==
  [Respond(s, 429, "Daily limit reached") EXCEPT
     !.hasRemaining = TRUE, !.respRemaining = s.dailyLimit - s.currentCount]

\* the 429 response of the rate limit branch (remaining: 0)
RespondRateLimited(s) ==
  [Respond(s, 429, "Daily limit reached") EXCEPT
     !.hasRemaining = TRUE, !.respRemaining = 0]

\* mutant of RespondOk: remaining is sent as checkRateLimit returned it
RespondOk_NoDecrement(s) ==
  [s EXCEPT !.pc = "done", !.status = 200,
            !.hasRemaining = TRUE, !.respRemaining = s.remaining]

\* the 200 response: { data: result, remaining: remaining - 1 }
RespondOk(s) ==
  [s EXCEPT !.pc = "done", !.status = 200,
            !.hasRemaining = TRUE, !.respRemaining = s.remaining - 1]

\* if (!authHeader)
HeaderMissing(authHeader) == authHeader = NoHeader

\* auth.getUser(token): the user of a token the provider accepts, else an
\* error; the provider may also fail on a good token
GetUserResults(token) ==
  {[user |-> NoUser, error |-> TRUE]}
  \cup (IF token \in Users THEN {[user |-> token, error |-> FALSE]} ELSE {})

\* mutant of UserRejected: the two tests are joined the wrong way
UserRejected_Conjoined(authError, user) == authError /\ user # NoUser

\* if (authError || !user)
UserRejected(authError, user) == authError \/ user = NoUser

\* callClaude up to its fetch: throws without the key, else the request to
\* the model backend is sent
CallClaude(s, apiKeySet) ==
  IF ~apiKeySet
  THEN Respond(s, 500, "Claude API key not configured on server")
  ELSE [s EXCEPT !.pc = "callClaude", !.calls = @ + 1]

\* the handler from req.json() to the call of the model backend
Dispatch(s, body, apiKeySet) ==
  LET t == [s EXCEPT !.body = body]
  IN IF ~body.json THEN Respond(t, 500, "Unexpected token in JSON")
     ELSE IF body.action = "parse_wod"
     THEN IF ~body.imageBase64 THEN Respond(t, 500, "Missing imageBase64")
          ELSE CallClaude(t, apiKeySet)
     ELSE IF body.action = "generate_strategy"
     THEN IF ~body.workout THEN Respond(t, 500, "Missing workout data")
          ELSE CallClaude(t, apiKeySet)
     ELSE Respond(t, 500, "Invalid action")

\* mutant of AfterRateLimit: the handler does not look at allowed
AfterRateLimit_NoReject(s, body, apiKeySet) == Dispatch(s, body, apiKeySet)

\* the handler after checkRateLimit has returned
AfterRateLimit(s, body, apiKeySet) ==
  IF ~s.allowed THEN RespondRateLimited(s) ELSE Dispatch(s, body, apiKeySet)

\* the statuses the model backend answers a refused request with: 400 and
\* 401 are permanent, 503 is transient
BackendErrorStatuses == {400, 401, 503}

\* what the fetch of the model backend can produce: the fetch rejects, or it
\* resolves with a status that is not ok, or with 200 and a body
ClaudeOutcomes ==
  {[fetch |-> "reject", status |-> 0, content |-> FALSE, text |-> <<>>],
   [fetch |-> "ok", status |-> 200, content |-> FALSE, text |-> <<>>]}
  \cup {[fetch |-> "error", status |-> st, content |-> FALSE, text |-> <<>>] :
          st \in BackendErrorStatuses}
  \cup {[fetch |-> "ok", status |-> 200, content |-> TRUE, text |-> t] :
          t \in ModelTexts}

\* `Claude API error: ${error}`, error being the body the model backend sent
\* with the status
ClaudeApiError(status) ==
  IF status = 400 THEN "Claude API error: invalid_request_error"
  ELSE IF status = 401 THEN "Claude API error: authentication_error"
  ELSE "Claude API error: overloaded_error"

\* mutant of AfterClaude: response.ok is not tested, an error answer of the
\* model backend is parsed like a success
AfterClaude_IgnoreStatus(s, out, now) ==
  IF out.fetch = "reject" THEN Respond(s, 500, "fetch failed")
  ELSE [s EXCEPT !.pc = "rpc", !.data = <<"{", "k", "}">>, !.p_date = now]

\* mutant of AfterClaude: a text without a {...} span is passed on as the
\* result instead of being refused
AfterClaude_NoSpanCheck(s, out, now) ==
  IF out.fetch = "reject" THEN Respond(s, 500, "fetch failed")
  ELSE IF out.fetch = "error" THEN Respond(s, 500, ClaudeApiError(out.status))
  ELSE LET t == [s EXCEPT !.gotOk = TRUE, !.text = out.text]
           jsonMatch == JsonMatch(out.text)
       IN IF ~out.content
          THEN Respond(t, 500, "Cannot read properties of undefined")
          ELSE IF jsonMatch # NoMatch /\ ~JsonParses(jsonMatch)
          THEN Respond(t, 500, "Unexpected token in JSON")
          ELSE [t EXCEPT !.pc = "rpc", !.parsed = (jsonMatch # NoMatch),
                         !.data = jsonMatch, !.p_date = now]

\* callClaude from the answer of the fetch, then the rest of parseWodImage /
\* generateStrategy, up to the rpc of incrementUsage
AfterClaude(s, out, now) ==
  IF out.fetch = "reject" THEN Respond(s, 500, "fetch failed")
  ELSE IF out.fetch = "error" THEN Respond(s, 500, ClaudeApiError(out.status))
  ELSE LET t == [s EXCEPT !.gotOk = TRUE, !.text = out.text]
           jsonMatch == JsonMatch(out.text)
       IN IF ~out.content
          THEN Respond(t, 500, "Cannot read properties of undefined")
          ELSE IF jsonMatch = NoMatch
          THEN Respond(t, 500, "No JSON found in response")
          ELSE IF ~JsonParses(jsonMatch)
          THEN Respond(t, 500, "Unexpected token in JSON")
          ELSE [t EXCEPT !.pc = "rpc", !.parsed = TRUE,
                         !.data = jsonMatch, !.p_date = now]

\* ---- the client: retry.ts ----
\* an error value: re says whether it is a RetryableError; a plain Error (a
\* TimeoutError, a network error) has neither statusCode nor isRetryable
NoStatus == 0
RetryableError(message, statusCode, isRetryable) ==
  [re |-> TRUE, message |-> message, statusCode |-> statusCode,
   isRetryable |-> isRetryable]
PlainError(message) ==
  [re |-> FALSE, message |-> message, statusCode |-> NoStatus,
   isRetryable |-> FALSE]
\* let lastError: Error = new Error('Unknown error')
UnknownError == PlainError("Unknown error")

\* mutant of IsRetryable: the flag of the error is not looked at
IsRetryable_Always(error) == TRUE

\* error instanceof RetryableError ? error.isRetryable : true
IsRetryable(error) == IF error.re THEN error.isRetryable ELSE TRUE

\* mutant of StatusCodeOf: the status code of the error is not read
StatusCodeOf_Undefined(error) == NoStatus

\* error instanceof RetryableError ? error.statusCode : undefined
StatusCodeOf(error) == IF error.re THEN error.statusCode ELSE NoStatus

\* mutant of ShouldRetry: the last attempt is also followed by a sleep
ShouldRetry_OffByOne(attempt, maxRetries, error) ==
  /\ attempt <= maxRetries
  /\ IsRetryable(error)
  /\ (StatusCodeOf(error) = NoStatus
       \/ StatusCodeOf(error) \in RetryableStatuses)

\* mutant of ShouldRetry: only errors without a status code are retried
ShouldRetry_NoStatusOnly(attempt, maxRetries, error) ==
  /\ attempt < maxRetries
  /\ IsRetryable(error)
  /\ StatusCodeOf(error) = NoStatus

\* attempt < opts.maxRetries && isRetryable &&
\* (!statusCode || opts.retryableStatuses.includes(statusCode))
ShouldRetry(attempt, maxRetries, error) ==
  /\ attempt < maxRetries
  /\ IsRetryable(error)
  /\ (StatusCodeOf(error) = NoStatus
       \/ StatusCodeOf(error) \in RetryableStatuses)

\* DEFAULT_OPTIONS: the delays of the backoff, in ms
DefaultOptions ==
  [initialDelayMs |-> 1000, maxDelayMs |-> 10000, backoffMultiplier |-> 2]

\* the delay options withRetry is run with: the defaults and overrides
DelayOptions ==
  [initialDelayMs : {500, 1000}, maxDelayMs : {1200, 10000},
   backoffMultiplier : {1, 2}]

\* the values of Math.random(): r stands for r / RandomSteps
RandomDraws == 0..(RandomSteps - 1)

\* Math.pow(b, n) for a natural n
RECURSIVE Pow(_, _)
Pow(b, n) == IF n = 0 THEN 1 ELSE b * Pow(b, n - 1)

Min(a, b) == IF a <= b THEN a ELSE b

\* mutant of CalculateDelay: the result is not capped at maxDelayMs
CalculateDelay_NoCap(attempt, opts, r) ==
  LET delay == opts.initialDelayMs * Pow(opts.backoffMultiplier, attempt)
      jitter == (r * 3 * delay) \div (10 * RandomSteps)
  IN delay + jitter

\* calculateDelay: delay = initialDelayMs * backoffMultiplier^attempt,
\* jitter = Math.random() * 0.3 * delay, Math.min(delay + jitter, maxDelayMs)
CalculateDelay(attempt, opts, r) ==
  LET delay == opts.initialDelayMs * Pow(opts.backoffMultiplier, attempt)
      jitter == (r * 3 * delay) \div (10 * RandomSteps)
  IN Min(delay + jitter, opts.maxDelayMs)

\* what one call of the wrapped function settles with
NoValue == "undefined"
FnReturn(value) == [ok |-> TRUE, value |-> value, error |-> UnknownError]
FnThrow(error) == [ok |-> FALSE, value |-> NoValue, error |-> error]

\* the wrapped functions withRetry is run with: a function is the sequence
\* of what its calls settle with
ScriptOutcomes ==
  {FnReturn("v1"), FnReturn("v2"),
   FnThrow(RetryableError("HTTP 503", 503, TRUE)),
   FnThrow(RetryableError("Daily limit reached", 429, FALSE)),
   FnThrow(RetryableError("HTTP 401", 401, TRUE)),
   FnThrow(RetryableError("API request failed", NoStatus, TRUE)),
   FnThrow(PlainError("TimeoutError"))}
Scripts == [1..(MaxMaxRetries + 1) -> ScriptOutcomes]

\* ---- the client: env.ts ----
\* the values EXPO_PUBLIC_CLAUDE_API_KEY is built with ("" when it is unset)
RawKeys == {"", "sk-ant-client-key"}

\* mutant of ClaudeApiKey: the build mode is not looked at
ClaudeApiKey_AnyBuild(raw, isDev) == IF raw = "" THEN NoValue ELSE raw

\* env.claudeApiKey: undefined when the variable is unset and in a build
\* that is not a development build
ClaudeApiKey(raw, isDev) ==
  IF raw = "" THEN NoValue
  ELSE IF ~isDev THEN NoValue
  ELSE raw

\* the env object of a build; loaded is FALSE before the module is loaded
NoEnv == [loaded |-> FALSE, isDev |-> FALSE, raw |-> "", claudeApiKey |-> NoValue]
Env(raw, isDev) ==
  [loaded |-> TRUE, isDev |-> isDev, raw |-> raw,
   claudeApiKey |-> ClaudeApiKey(raw, isDev)]

\* const USE_EDGE_FUNCTION = !CLAUDE_API_KEY
UseEdgeFunction(claudeApiKey) == claudeApiKey = NoValue \/ claudeApiKey = ""

\* ---- the client: withRetry ----
\* the state of one call of withRetry; fn is "script" for a wrapped function
\* given by a script and "edge" for the function of callEdgeFunction
NewCall ==
  [pc |-> "idle", fn |-> "script", script |-> <<>>,
   maxRetries |-> 0, attempt |-> 0, lastError |-> UnknownError,
   value |-> NoValue,
   \* callEdgeFunction: the access token of the session, whether the timer
   \* of fetchWithTimeout is scheduled, the gateway slot that handles the
   \* request of the running fetch (0: none)
   token |-> NoHeader, timeoutId |-> FALSE, slot |-> 0,
   \* whether the caller has aborted the AbortSignal it holds for the call
   callerAborted |-> FALSE,
   \* the env object of the build the client runs
   env |-> NoEnv,
   \* calculateDelay: the delay options and the delay it returned
   opts |-> DefaultOptions, delay |-> 0,
   \* history of the call, for the properties
   calls |-> 0, sleeps |-> 0, sent |-> 0, kind |-> "none"]

\* fetchWithTimeout up to its await: the timer of the controller is
\* scheduled and the fetch is started
FetchWithTimeout(c) == [c EXCEPT !.timeoutId = TRUE, !.slot = 0]

\* return await fn(): the wrapped function is called; the function of
\* callEdgeFunction starts with fetchWithTimeout
CallFn(c) ==
  LET t == [c EXCEPT !.pc = "fn", !.calls = @ + 1]
  IN IF c.fn = "edge" THEN FetchWithTimeout(t) ELSE t

\* the loop head of withRetry: attempt <= opts.maxRetries, else throw
\* lastError
LoopHead(c) ==
  IF c.attempt <= c.maxRetries THEN CallFn(c) ELSE [c EXCEPT !.pc = "raised"]

\* withRetry(fn, { maxRetries }) up to the first call of fn
WithRetry(c, maxRetries) ==
  LoopHead([c EXCEPT !.maxRetries = maxRetries, !.attempt = 0,
                     !.lastError = UnknownError])

\* return await fn() when fn returns
AfterFnReturns(c, value) == [c EXCEPT !.pc = "returned", !.value = value]

\* the catch block of withRetry: break and throw lastError, or sleep
AfterFnThrows(c, error) ==
  LET t == [c EXCEPT !.lastError = error]
  IN IF ~ShouldRetry(c.attempt, c.maxRetries, error)
     THEN [t EXCEPT !.pc = "raised"]
     ELSE [t EXCEPT !.pc = "sleep", !.sleeps = @ + 1]

\* the sleep is over: attempt++ and the loop head
AfterSleep(c) == LoopHead([c EXCEPT !.attempt = @ + 1])

\* what call number n of the scripted function settles with
ScriptOutcome(c) ==
  IF c.calls \in DOMAIN c.script THEN c.script[c.calls]
  ELSE FnThrow(PlainError("TimeoutError"))

\* ---- the client: callEdgeFunction ----
\* the response of the gateway as the client reads it: status and the JSON
\* body { error, message, data }
ResponseOf(s) ==
  [status |-> s.status, error |-> s.error,
   message |-> IF s.status = 429
               THEN "You've used all your daily WOD analyses. Upgrade to Pro for more!"
               ELSE "",
   data |-> s.data]

\* response.ok
ResponseOk(status) == status \in 200..299

\* the function callEdgeFunction wraps, from response.json() on
EdgeOutcome(response) ==
  IF ~ResponseOk(response.status)
  THEN IF response.status = 429
       THEN FnThrow(RetryableError(
              IF response.message # "" THEN response.message
              ELSE "Daily limit reached. Upgrade to Pro for more analyses!",
              429, FALSE))
       ELSE FnThrow(RetryableError(
              IF response.error # "" THEN response.error
              ELSE "API request failed",
              response.status, TRUE))
  ELSE IF response.error # "" THEN FnThrow(PlainError(response.error))
  ELSE FnReturn(response.data)

\* mutant of AfterFetch: the finally block does not clear the timer
AfterFetch_NoClear(c, outcome) ==
  LET t == [c EXCEPT !.slot = 0]
  IN IF outcome.ok THEN AfterFnReturns(t, outcome.value)
     ELSE AfterFnThrows(t, outcome.error)

\* fetchWithTimeout from the settling of its fetch: the finally block clears
\* the timer; then the rest of the wrapped function and withRetry
AfterFetch(c, outcome) ==
  LET t == [c EXCEPT !.timeoutId = FALSE, !.slot = 0]
  IN IF outcome.ok THEN AfterFnReturns(t, outcome.value)
     ELSE AfterFnThrows(t, outcome.error)

\* the kind of failure an answered invocation ended with
FailureKind(s) ==
  IF s.status = 200 THEN "none"
  ELSE IF s.status = 401 THEN "Unauthenticated"
  ELSE IF s.status = 429 THEN "QuotaExceeded"
  ELSE IF s.p_date # NoDate THEN "UsageRecording"
  ELSE IF s.gotOk THEN "MalformedModelOutput"
  ELSE IF s.calls > 0 \/ s.error = "Claude API key not configured on server"
  THEN "ModelBackendError"
  ELSE "InvalidRequest"

\* the development fallback of parseWodImage / generateStrategy:
\* callClaudeDirect sends the request to the model backend with the key of
\* the client build
CallClaudeDirect(c) ==
  [NewCall EXCEPT !.fn = "direct", !.pc = "fn", !.calls = 1, !.env = c.env]

\* callClaudeDirect from the settling of its fetch, and the parsing of the
\* text by parseWodImage / generateStrategy
AfterDirect(c, out) ==
  IF out.fetch = "reject"
  THEN [c EXCEPT !.pc = "raised", !.lastError = PlainError("fetch failed")]
  ELSE IF out.fetch = "error"
  THEN [c EXCEPT !.pc = "raised",
                 !.lastError = PlainError(ClaudeApiError(out.status))]
  ELSE IF ~out.content
  THEN [c EXCEPT !.pc = "raised",
                 !.lastError = PlainError("Cannot read properties of undefined")]
  ELSE LET jsonMatch == JsonMatch(out.text)
       IN IF jsonMatch = NoMatch \/ ~JsonParses(jsonMatch)
          THEN [c EXCEPT !.pc = "raised",
                         !.lastError = PlainError("Failed to parse workout from image")]
          ELSE [c EXCEPT !.pc = "returned", !.value = jsonMatch]

\* the value of the CLAUDE_API_KEY secret of the gateway
ApiKeyValue == "sk-ant-server-key"

\* corsHeaders and Content-Type, the headers of every response
ResponseHeaders ==
  {"*", "authorization, x-client-info, apikey, content-type",
   "application/json"}

\* every string a response of the gateway carries in its body and headers
ResponseStrings(s) ==
  {ResponseOf(s).error, ResponseOf(s).message}
  \cup (IF s.status = 200 THEN {s.data[i] : i \in DOMAIN s.data} ELSE {})
  \cup ResponseHeaders

\* ---- the client: saveMovementSkills / saveStrengthNumbers ----
\* a name (movementName, liftName) is a sequence of characters: "a" and "b"
\* are letters, "q" is a double quote, "c" is a comma; the empty name is the
\* one validateMovementSkills / validateStrengthNumbers refuses
SaveNames ==
  {<<>>, <<"a">>, <<"b">>, <<"a", "q", "c", "q", "b">>}

\* the skills / lifts arrays a save is called with (their names, in order)
SaveInputs == UNION {[1..n -> SaveNames] : n \in 0..MaxInput}

TableNames == {"movement_skills", "strength_numbers"}

\* a row of either table, by its key (user_id, movement_name / lift_name)
Row(u, name) == [user_id |-> u, name |-> name]
NoRows == [t \in TableNames |-> {}]

Range(seq) == {seq[i] : i \in DOMAIN seq}

\* validateMovementSkills / validateStrengthNumbers throw: a name is empty
ValidationFails(input) == \E i \in DOMAIN input : input[i] = <<>>

\* two elements of the array have the same key: the INSERT ... ON CONFLICT DO
\* UPDATE of the upsert cannot affect a row a second time and fails
HasDuplicates(input) ==
  \E i, j \in DOMAIN input : i # j /\ input[i] = input[j]

RECURSIVE Join(_, _)
\* names.map((n) => `"${n}"`).join(','), from element i on
Join(names, i) ==
  IF i > Len(names) THEN <<>>
  ELSE <<"q">> \o names[i] \o <<"q">>
       \o (IF i < Len(names) THEN <<"c">> ELSE <<>>) \o Join(names, i + 1)

\* the list of the filter not.in.(...) as the code writes it
NotInList(names) == Join(names, 1)

\* the database reads the list of an in filter from position i on: elements
\* separated by commas, an element being a double-quoted string (up to the
\* next double quote) or a run of letters
RECURSIVE ParseList(_, _, _)
ParseList(s, i, acc) ==
  LET bad == [ok |-> FALSE, values |-> {}]
      After(j, value) ==
        IF j = Len(s) THEN [ok |-> TRUE, values |-> acc \cup {value}]
        ELSE IF s[j + 1] = "c" THEN ParseList(s, j + 2, acc \cup {value})
        ELSE bad
  IN IF i > Len(s) THEN bad
     ELSE IF s[i] = "q"
     THEN LET closes == {j \in (i + 1)..Len(s) : s[j] = "q"}
          IN IF closes = {} THEN bad
             ELSE After(SetMin(closes), SubSeq(s, i + 1, SetMin(closes) - 1))
     ELSE IF s[i] = "c" THEN bad
     ELSE LET stops == {j \in i..Len(s) : s[j] \in {"c", "q"}}
              end == IF stops = {} THEN Len(s) ELSE SetMin(stops) - 1
          IN After(end, SubSeq(s, i, end))

\* the state of one call of a save
NewSave ==
  [pc |-> "idle", table |-> "movement_skills", input |-> <<>>, user |-> NoUser,
   error |-> "",
   \* history of the call, for the properties: the rows of the table when
   \* the call started, whether the upsert and the cleanup succeeded
   before |-> {}, upserted |-> FALSE, cleaned |-> FALSE]

\* return { error }
SaveReturns(c, error) == [c EXCEPT !.pc = "done", !.error = error]

\* the save up to its first await: validation, getSupabaseClient
SaveCall(table, input, configured, rows) ==
  LET c == [NewSave EXCEPT !.table = table, !.input = input, !.before = rows]
  IN IF Len(input) > 0 /\ ValidationFails(input)
     THEN SaveReturns(c, "ValidationError")
     ELSE IF ~configured THEN SaveReturns(c, "Supabase not configured")
     ELSE [c EXCEPT !.pc = "getCurrentUser"]

\* the rows of user u
RowsOfUser(rows, u) == {r \in rows : r.user_id = u}

\* .delete().eq('user_id', user.id)
DeleteAll(rows, u) == rows \ RowsOfUser(rows, u)

\* .upsert(rows, { onConflict: 'user_id,<name>' })
Upsert(rows, u, input) == rows \cup {Row(u, n) : n \in Range(input)}

\* .delete().eq('user_id', user.id).not('<name>', 'in', `(...)`), the list
\* already read by the database
DeleteNotIn(rows, u, values) ==
  rows \ {r \in RowsOfUser(rows, u) : r.name \notin values}

\* ---- initial state ----
\* a user starts the first day either without a row or one request short of
\* the ceiling of the tier, after that many successful requests
PriorCounts(tierValue) ==
  {DailyLimit(TierOf([null |-> FALSE, subscription_tier |-> tierValue])) - 1}

Init ==
  /\ inv = [p \in Procs |-> Idle]
  /\ last = Idle
  /\ profiles \in [Users -> TierValues]
  /\ \E c \in [Users -> {0, FREE_TIER_DAILY_LIMIT - 1, PRO_TIER_DAILY_LIMIT - 1}] :
       /\ \A u \in Users : c[u] \in PriorCounts(profiles[u])
       /\ prior = [u \in Users |-> [d \in Dates |-> IF d = 1 THEN c[u] ELSE 0]]
  /\ api_usage = {[id |-> u, user_id |-> u, date |-> 1,
                   request_count |-> prior[u][1]] :
                  u \in {v \in Users : prior[v][1] > 0}}
  /\ nextId = NumUsers + 1
  /\ clock = 1
  /\ started = 0
  /\ backendOk = prior
  /\ rpcApplied = [u \in Users |-> [d \in Dates |-> 0]]
  /\ cl = NewCall
  /\ tables = NoRows
  /\ save = NewSave

\* ---- actions ----
\* the handler of slot p moves to local state s; when s is a response the
\* invocation ends, the slot is free again and s is shown in last until the
\* next step
Continue(p, s) ==
  IF s.pc = "done"
  THEN inv' = [inv EXCEPT ![p] = Idle] /\ last' = s
  ELSE inv' = [inv EXCEPT ![p] = s] /\ last' = Idle

\* serve: a request arrives (in the lowest free slot); without an
\* Authorization header it is answered at once, else the token goes to the
\* identity provider
Receive(p, auth) ==
  /\ inv[p].pc = "idle"
  /\ \A q \in Procs : q < p => InFlight(inv[q])
  /\ started' = started + 1
  /\ Continue(p, IF HeaderMissing(auth)
                 THEN Respond(NewInv(auth), 401, "Missing authorization header")
                 ELSE NewInv(auth))
  /\ UNCHANGED <<api_usage, nextId, profiles, clock, prior,
                 backendOk, rpcApplied>>

\* a request of the traffic the model generates on its own: at most
\* MaxInvocations of them
Request(p, auth) ==
  /\ started < MaxInvocations
  /\ Receive(p, auth)

\* auth.getUser returns; on success checkRateLimit starts: it takes today's
\* date and sends the profile read
GetUserReturns(p, res) ==
  /\ inv[p].pc = "getUser"
  /\ res \in GetUserResults(inv[p].authHeader)
  /\ Continue(p, IF UserRejected(res.error, res.user)
                 THEN Respond(inv[p], 401, "Invalid or expired token")
                 ELSE [inv[p] EXCEPT !.pc = "readProfile", !.user = res.user,
                                     !.today = clock])
  /\ UNCHANGED <<api_usage, nextId, profiles, clock, started,
                 prior, backendOk, rpcApplied>>

\* checkRateLimit: the profile read returns; the usage read is sent
ProfileReturns(p, readError) ==
  /\ inv[p].pc = "readProfile"
  /\ LET profile == SelectProfile(profiles, inv[p].user, readError)
         tier == TierOf(profile)
     IN Continue(p, [inv[p] EXCEPT !.pc = "readUsage",
                                   !.profileNull = profile.null,
                                   !.dailyLimit = DailyLimit(tier),
                                   !.reads = @ + 1])
  /\ UNCHANGED <<api_usage, nextId, profiles, clock, started,
                 prior, backendOk, rpcApplied>>

\* checkRateLimit: the usage read returns and the function returns
\* { allowed, remaining } (its local profile is gone); the handler rejects or
\* dispatches, reading CLAUDE_API_KEY from its environment
UsageReturns(p, readError, body, apiKeySet) ==
  /\ inv[p].pc = "readUsage"
  /\ LET s == inv[p]
         currentCount ==
           CurrentCount(SelectUsage(api_usage, s.user, s.today, readError))
         t == [s EXCEPT !.profileNull = FALSE,
                        !.currentCount = currentCount,
                        !.remaining = Remaining(currentCount, s.dailyLimit),
                        !.allowed = Allowed(currentCount, s.dailyLimit),
                        !.reads = @ + 1]
     IN Continue(p, AfterRateLimit(t, body, apiKeySet))
  /\ UNCHANGED <<api_usage, nextId, profiles, clock, started,
                 prior, backendOk, rpcApplied>>

\* the fetch of the model backend settles; on a parsed answer incrementUsage
\* takes today's date and sends the rpc
ClaudeReturns(p, out) ==
  /\ inv[p].pc = "callClaude"
  /\ Continue(p, AfterClaude(inv[p], out, clock))
  /\ backendOk' = IF out.fetch = "ok"
                  THEN [backendOk EXCEPT ![inv[p].user][clock] = @ + 1]
                  ELSE backendOk
  /\ UNCHANGED <<api_usage, nextId, profiles, clock, started,
                 prior, rpcApplied>>

\* the increment_api_usage rpc settles: the function ran in the database, or
\* the call failed without running it; supabase-js reports a failure in its
\* result, which incrementUsage drops, and the handler answers 200
RpcReturns(p, ran) ==
  /\ inv[p].pc = "rpc"
  /\ LET s == inv[p]
     IN /\ api_usage' = IF ran
                        THEN increment_api_usage(api_usage, nextId,
                                                 s.user, s.p_date)
                        ELSE api_usage
        /\ nextId' = IF ran THEN nextId + 1 ELSE nextId
        /\ rpcApplied' = IF ran
                         THEN [rpcApplied EXCEPT ![s.user][s.p_date] = @ + 1]
                         ELSE rpcApplied
        /\ Continue(p, RespondOk([s EXCEPT !.charged = IF ran THEN @ + 1 ELSE @]))
  /\ UNCHANGED <<profiles, clock, started, prior, backendOk>>

\* UTC midnight passes
Tick ==
  /\ clock < MaxDate
  /\ clock' = clock + 1
  /\ UNCHANGED <<inv, last, api_usage, nextId, profiles, started,
                 prior, backendOk, rpcApplied>>

Next ==
  \/ \E p \in Procs, auth \in AuthHeaders : Request(p, auth) /\ UNCHANGED <<cl, svars>>
  \/ \E p \in Procs, res \in [user : Users \cup {NoUser}, error : BOOLEAN] :
       GetUserReturns(p, res) /\ UNCHANGED <<cl, svars>>
  \/ \E p \in Procs, readError \in BOOLEAN :
       ProfileReturns(p, readError) /\ UNCHANGED <<cl, svars>>
  \/ \E p \in Procs, readError \in BOOLEAN, body \in Bodies,
          apiKeySet \in BOOLEAN :
       UsageReturns(p, readError, body, apiKeySet) /\ UNCHANGED <<cl, svars>>
  \/ \E p \in Procs, out \in ClaudeOutcomes :
       ClaudeReturns(p, out) /\ UNCHANGED <<cl, svars>>
  \/ \E p \in Procs, ran \in BOOLEAN : RpcReturns(p, ran) /\ UNCHANGED <<cl, svars>>
  \/ Tick /\ UNCHANGED <<cl, svars>>

\* concurrent invocations, every outcome of every external call
Spec == Init /\ [][Next]_vars

NoneInFlight == \A q \in Procs : ~InFlight(inv[q])

\* the invocations are handled one at a time
NextSerial ==
  \/ \E p \in Procs, auth \in AuthHeaders :
       NoneInFlight /\ Request(p, auth) /\ UNCHANGED <<cl, svars>>
  \/ \E p \in Procs, res \in [user : Users \cup {NoUser}, error : BOOLEAN] :
       GetUserReturns(p, res) /\ UNCHANGED <<cl, svars>>
  \/ \E p \in Procs, readError \in BOOLEAN :
       ProfileReturns(p, readError) /\ UNCHANGED <<cl, svars>>
  \/ \E p \in Procs, readError \in BOOLEAN, body \in Bodies,
          apiKeySet \in BOOLEAN :
       UsageReturns(p, readError, body, apiKeySet) /\ UNCHANGED <<cl, svars>>
  \/ \E p \in Procs, out \in ClaudeOutcomes :
       ClaudeReturns(p, out) /\ UNCHANGED <<cl, svars>>
  \/ \E p \in Procs, ran \in BOOLEAN : RpcReturns(p, ran) /\ UNCHANGED <<cl, svars>>
  \/ Tick /\ UNCHANGED <<cl, svars>>

SpecSerial == Init /\ [][NextSerial]_vars

\* the invocations are handled one at a time, and the reads of api_usage and
\* the increments succeed
NextSeq ==
  \/ \E p \in Procs, auth \in AuthHeaders :
       NoneInFlight /\ Request(p, auth) /\ UNCHANGED <<cl, svars>>
  \/ \E p \in Procs, res \in [user : Users \cup {NoUser}, error : BOOLEAN] :
       GetUserReturns(p, res) /\ UNCHANGED <<cl, svars>>
  \/ \E p \in Procs, readError \in BOOLEAN :
       ProfileReturns(p, readError) /\ UNCHANGED <<cl, svars>>
  \/ \E p \in Procs, body \in Bodies, apiKeySet \in BOOLEAN :
       UsageReturns(p, FALSE, body, apiKeySet) /\ UNCHANGED <<cl, svars>>
  \/ \E p \in Procs, out \in ClaudeOutcomes :
       ClaudeReturns(p, out) /\ UNCHANGED <<cl, svars>>
  \/ \E p \in Procs : RpcReturns(p, TRUE) /\ UNCHANGED <<cl, svars>>
  \/ Tick /\ UNCHANGED <<cl, svars>>

SpecSeq == Init /\ [][NextSeq]_vars

\* the rpc of incrementUsage rejects: the await in incrementUsage throws, the
\* await in the handler throws, and the catch of the handler answers 500 with
\* the message of the error; the function may have run in the database
RpcThrows(p, ran) ==
  /\ inv[p].pc = "rpc"
  /\ LET s == inv[p]
     IN /\ api_usage' = IF ran
                        THEN increment_api_usage(api_usage, nextId,
                                                 s.user, s.p_date)
                        ELSE api_usage
        /\ nextId' = IF ran THEN nextId + 1 ELSE nextId
        /\ rpcApplied' = IF ran
                         THEN [rpcApplied EXCEPT ![s.user][s.p_date] = @ + 1]
                         ELSE rpcApplied
        /\ Continue(p, Respond([s EXCEPT !.charged = IF ran THEN @ + 1 ELSE @],
                               500, "rpc failed"))
  /\ UNCHANGED <<profiles, clock, started, prior, backendOk>>

\* the invocations are handled one at a time; a failed rpc is reported in
\* its result or by a rejected promise
NextThrow ==
  \/ NextSerial
  \/ \E p \in Procs, ran \in BOOLEAN : RpcThrows(p, ran) /\ UNCHANGED <<cl, svars>>

SpecThrow == Init /\ [][NextThrow]_vars

\* ---- actions of the client ----
\* withRetry is called with a wrapped function and a maxRetries option
StartRetry(maxRetries, script) ==
  /\ cl.pc = "idle"
  /\ cl' = WithRetry([NewCall EXCEPT !.script = script], maxRetries)

\* the call of the wrapped function settles
FnSettles ==
  /\ cl.pc = "fn" /\ cl.fn = "script"
  /\ LET o == ScriptOutcome(cl)
     IN cl' = IF o.ok THEN AfterFnReturns(cl, o.value)
              ELSE AfterFnThrows(cl, o.error)

\* the timer of sleep fires
SleepEnds ==
  /\ cl.pc = "sleep"
  /\ cl' = AfterSleep(cl)

\* withRetry alone, around every scripted function
NextRetry ==
  \/ \E m \in 0..MaxMaxRetries, script \in Scripts :
       StartRetry(m, script) /\ UNCHANGED <<gvars, svars>>
  \/ FnSettles /\ UNCHANGED <<gvars, svars>>
  \/ SleepEnds /\ UNCHANGED <<gvars, svars>>

\* withRetry runs in the client alone: the gateway is idle and every user is
\* on the free tier without usage
InitRetry ==
  /\ inv = [p \in Procs |-> Idle]
  /\ last = Idle
  /\ profiles = [u \in Users |-> "free"]
  /\ prior = [u \in Users |-> [d \in Dates |-> 0]]
  /\ api_usage = {}
  /\ nextId = NumUsers + 1
  /\ clock = 1
  /\ started = 0
  /\ backendOk = prior
  /\ rpcApplied = [u \in Users |-> [d \in Dates |-> 0]]
  /\ cl = NewCall
  /\ tables = NoRows
  /\ save = NewSave

SpecRetry == InitRetry /\ [][NextRetry]_vars

\* the bodies callEdgeFunction is called to send: parseWodImage sends
\* imageBase64 (possibly empty) and mimeType, generateStrategy sends workout
\* (possibly undefined, which JSON.stringify leaves out)
ClientBodies ==
  {MkBody(TRUE, "parse_wod", i, TRUE, FALSE) : i \in BOOLEAN}
  \cup {MkBody(TRUE, "generate_strategy", FALSE, FALSE, w) : w \in BOOLEAN}

\* the access tokens of a session: of a user, or expired
SessionTokens == {BadToken} \cup Users

\* callEdgeFunction is called: without a session it throws, else it runs
\* withRetry with maxRetries 2
CallEdgeFunction(session, token) ==
  /\ cl.pc = "idle"
  /\ LET c == [NewCall EXCEPT !.fn = "edge", !.token = token, !.env = cl.env]
     IN cl' = IF ~session
              THEN [c EXCEPT !.pc = "raised",
                             !.lastError = PlainError(
                               "You must be signed in to analyze workouts")]
              ELSE WithRetry(c, EdgeMaxRetries)

\* the request of the running fetch reaches the gateway
EdgeReceives(p) ==
  /\ cl.pc = "fn" /\ cl.fn = "edge" /\ cl.slot = 0
  /\ Receive(p, cl.token)
  /\ cl' = [cl EXCEPT !.slot = p, !.sent = @ + 1]
  /\ UNCHANGED svars

\* a step of the gateway in slot p: when it answers the request of the
\* running fetch the fetch resolves with the response and the wrapped
\* function goes on; any other step leaves the client as it is
Delivered(p) ==
  /\ cl' = IF last'.pc = "done" /\ cl.pc = "fn" /\ cl.fn = "edge" /\ cl.slot = p
           THEN AfterFetch([cl EXCEPT !.kind = FailureKind(last')],
                           EdgeOutcome(ResponseOf(last')))
           ELSE cl
  /\ UNCHANGED svars

\* the timer of fetchWithTimeout fires: controller.abort() rejects the fetch
\* with an AbortError, which becomes a TimeoutError; the gateway goes on
\* with the request if it has received it
FetchTimesOut ==
  /\ cl.pc = "fn" /\ cl.fn = "edge" /\ cl.timeoutId
  /\ cl' = AfterFetch(cl, FnThrow(PlainError("TimeoutError")))

\* the fetch rejects before the request has reached the gateway
FetchFails ==
  /\ cl.pc = "fn" /\ cl.fn = "edge" /\ cl.slot = 0
  /\ cl' = AfterFetch(cl, FnThrow(PlainError("Network request failed")))

\* a step of the client alone: the gateway and the database stay as they
\* are, and the step answers no invocation
ClientStep ==
  /\ last' = Idle
  /\ UNCHANGED <<inv, api_usage, nextId, profiles, clock, started,
                 prior, backendOk, rpcApplied, tables, save>>

\* the client calls the gateway through callEdgeFunction
NextEdge ==
  \/ \E session \in BOOLEAN, token \in SessionTokens :
       CallEdgeFunction(session, token) /\ ClientStep
  \/ \E p \in Procs : EdgeReceives(p)
  \/ \E p \in Procs, res \in [user : Users \cup {NoUser}, error : BOOLEAN] :
       GetUserReturns(p, res) /\ Delivered(p)
  \/ \E p \in Procs, readError \in BOOLEAN :
       ProfileReturns(p, readError) /\ Delivered(p)
  \/ \E p \in Procs, readError \in BOOLEAN, body \in ClientBodies,
          apiKeySet \in BOOLEAN :
       UsageReturns(p, readError, body, apiKeySet) /\ Delivered(p)
  \/ \E p \in Procs, out \in ClaudeOutcomes :
       ClaudeReturns(p, out) /\ Delivered(p)
  \/ \E p \in Procs, ran \in BOOLEAN : RpcReturns(p, ran) /\ Delivered(p)
  \/ FetchTimesOut /\ ClientStep
  \/ FetchFails /\ ClientStep
  \/ SleepEnds /\ ClientStep

\* the user of the client starts one request short of the ceiling or at the
\* ceiling of the tier
InitEdge ==
  /\ inv = [p \in Procs |-> Idle]
  /\ last = Idle
  /\ profiles \in [Users -> {"free", "pro"}]
  /\ \E c \in [Users -> {FREE_TIER_DAILY_LIMIT - 1, FREE_TIER_DAILY_LIMIT,
                          PRO_TIER_DAILY_LIMIT - 1, PRO_TIER_DAILY_LIMIT}] :
       /\ \A u \in Users : \E q \in PriorCounts(profiles[u]) : c[u] \in {q, q + 1}
       /\ prior = [u \in Users |-> [d \in Dates |-> IF d = 1 THEN c[u] ELSE 0]]
  /\ api_usage = {[id |-> u, user_id |-> u, date |-> 1,
                   request_count |-> prior[u][1]] : u \in Users}
  /\ nextId = NumUsers + 1
  /\ clock = 1
  /\ started = 0
  /\ backendOk = prior
  /\ rpcApplied = [u \in Users |-> [d \in Dates |-> 0]]
  /\ cl = NewCall
  /\ tables = NoRows
  /\ save = NewSave

SpecEdge == InitEdge /\ [][NextEdge]_vars

\* withRetry around a scripted function, or callEdgeFunction and the gateway
NextClient == NextRetry \/ NextEdge

SpecClient == InitEdge /\ [][NextClient]_vars

\* the caller aborts its AbortSignal (useCancellableRequest: cancelAll, or the
\* unmount of the component) while the call runs.  callEdgeFunction takes no
\* signal, fetchWithTimeout hands the fetch the signal of its own controller
\* (signal: controller.signal comes after ...init), and sleep is a bare
\* setTimeout: nothing of the call listens to the signal of the caller
CallerAborts ==
  /\ cl.fn = "edge" /\ cl.pc \in {"fn", "sleep"}
  /\ ~cl.callerAborted
  /\ cl' = [cl EXCEPT !.callerAborted = TRUE]

\* callEdgeFunction and the gateway, with a caller that may abort
NextCancel ==
  \/ NextEdge
  \/ CallerAborts /\ ClientStep

SpecCancel == InitEdge /\ [][NextCancel]_vars

\* callEdgeFunction and the gateway when timers fire and every service but
\* the model backend answers: the timer of fetchWithTimeout and the timer of
\* sleep are setTimeout timers of the client; the gateway has no timer, and
\* its fetch of the model backend is a bare fetch without a signal
SpecLive ==
  /\ InitEdge
  /\ [][NextEdge]_vars
  /\ WF_vars(FetchTimesOut /\ ClientStep)
  /\ WF_vars(SleepEnds /\ ClientStep)
  /\ WF_vars(\E p \in Procs, res \in [user : Users \cup {NoUser},
                                        error : BOOLEAN] :
               GetUserReturns(p, res) /\ Delivered(p))
  /\ WF_vars(\E p \in Procs, readError \in BOOLEAN :
               ProfileReturns(p, readError) /\ Delivered(p))
  /\ WF_vars(\E p \in Procs, readError \in BOOLEAN, body \in ClientBodies,
                apiKeySet \in BOOLEAN :
               UsageReturns(p, readError, body, apiKeySet) /\ Delivered(p))
  /\ WF_vars(\E p \in Procs, ran \in BOOLEAN :
               RpcReturns(p, ran) /\ Delivered(p))

\* the client bundle is loaded: env.ts reads the variables the build inlined
AppLoads(raw, isDev) ==
  /\ cl.pc = "idle" /\ ~cl.env.loaded
  /\ cl' = [cl EXCEPT !.env = Env(raw, isDev)]

\* parseWodImage / generateStrategy: through the gateway when
\* USE_EDGE_FUNCTION, else directly to the model backend
ParseWodImage(session, token) ==
  /\ cl.env.loaded
  /\ IF UseEdgeFunction(cl.env.claudeApiKey)
     THEN CallEdgeFunction(session, token)
     ELSE cl.pc = "idle" /\ cl' = CallClaudeDirect(cl)

\* the fetch of callClaudeDirect settles
DirectSettles(out) ==
  /\ cl.fn = "direct" /\ cl.pc = "fn"
  /\ cl' = AfterDirect(cl, out)

\* a client build with its env, the gateway handling one request at a time:
\* the requests of the client and requests of other callers
NextEnv ==
  \/ \E raw \in RawKeys, isDev \in BOOLEAN : AppLoads(raw, isDev) /\ ClientStep
  \/ \E session \in BOOLEAN, token \in SessionTokens :
       ParseWodImage(session, token) /\ ClientStep
  \/ \E out \in ClaudeOutcomes : DirectSettles(out) /\ ClientStep
  \/ \E p \in Procs : NoneInFlight /\ EdgeReceives(p)
  \/ \E p \in Procs, auth \in AuthHeaders :
       NoneInFlight /\ Request(p, auth) /\ UNCHANGED <<cl, svars>>
  \/ \E p \in Procs, res \in [user : Users \cup {NoUser}, error : BOOLEAN] :
       GetUserReturns(p, res) /\ Delivered(p)
  \/ \E p \in Procs, readError \in BOOLEAN :
       ProfileReturns(p, readError) /\ Delivered(p)
  \/ \E p \in Procs, readError \in BOOLEAN, body \in Bodies,
          apiKeySet \in BOOLEAN :
       UsageReturns(p, readError, body, apiKeySet) /\ Delivered(p)
  \/ \E p \in Procs, out \in ClaudeOutcomes :
       ClaudeReturns(p, out) /\ Delivered(p)
  \/ \E p \in Procs, ran \in BOOLEAN : RpcReturns(p, ran) /\ Delivered(p)
  \/ SleepEnds /\ ClientStep

SpecEnv == InitEdge /\ [][NextEnv]_vars

\* ---- properties ----
Keys == Users \X Dates

\* the ceiling of the tier stored for user u
CeilingOf(u) ==
  IF profiles[u] = "pro" THEN PRO_TIER_DAILY_LIMIT ELSE FREE_TIER_DAILY_LIMIT

\* an invocation was answered by the step that led to this state
Answered == last.pc = "done"

\* C1: no double counting: for every user and date the stored request_count
\* is at most the number of model-backend calls answered with success for
\* that user on that date, and no invocation increments more than once.
C1_NoDoubleCounting ==
  /\ \A k \in Keys : Count(api_usage, k[1], k[2]) <= backendOk[k[1]][k[2]]
  /\ last.charged <= 1
  /\ \A p \in Procs : inv[p].charged = 0

\* C1 witness: a row was incremented after a successful model-backend call
\* while a further successful call of the same day was not counted
C1_Witness ==
  /\ Answered /\ last.status = 200 /\ last.charged = 1
  /\ Count(api_usage, last.user, last.p_date) = prior[last.user][last.p_date] + 1
  /\ backendOk[last.user][last.p_date] > Count(api_usage, last.user, last.p_date)

\* C2: a request that checkRateLimit does not allow is answered 429 with
\* remaining 0, the model backend is not called for it, and the step that
\* rejects it leaves the api_usage table as it was.
C2_RejectedLeavesCounter ==
  [][ (last'.pc = "done" /\ last'.reads = 2 /\ ~last'.allowed)
      => /\ last'.status = 429
         /\ last'.hasRemaining /\ last'.respRemaining = 0
         /\ last'.calls = 0 /\ last'.charged = 0
         /\ api_usage' = api_usage ]_vars

\* C2 witness: a request was rejected at the ceiling
C2_Witness ==
  /\ Answered /\ last.reads = 2 /\ ~last.allowed /\ last.status = 429
  /\ Count(api_usage, last.user, last.today) >= last.dailyLimit

\* C3: the table changes only in the step in which an invocation whose
\* model-backend call succeeded and whose output was extracted and parsed is
\* answered; a step that answers with a failure leaves the table as it was.
C3_ChargedOnlyAfterParsedSuccess ==
  [][ /\ (api_usage' # api_usage)
         => (last'.pc = "done" /\ last'.status = 200
             /\ last'.gotOk /\ last'.parsed /\ last'.calls = 1)
      /\ (last'.pc = "done" /\ last'.status # 200)
         => (api_usage' = api_usage /\ last'.charged = 0) ]_vars

\* C3 witness: the model backend answered with success, the output held no
\* {...} span, and the request failed
C3_Witness ==
  /\ Answered /\ last.status = 500 /\ last.gotOk /\ ~last.parsed
  /\ last.error = "No JSON found in response"
  /\ Count(api_usage, last.user, last.today) = prior[last.user][last.today]

\* C4: a request without Authorization header, or whose token the identity
\* provider does not resolve to a user, is answered 401 without a read of
\* profiles or api_usage, without a write and without a model-backend call;
\* only invocations of a resolved user get past authentication.
C4_AuthFirst ==
  /\ (Answered /\ last.user = NoUser)
       => /\ last.status = 401
          /\ last.reads = 0 /\ last.calls = 0 /\ last.charged = 0
  /\ (Answered /\ last.authHeader \notin Users) => last.user = NoUser
  /\ \A p \in Procs :
       inv[p].pc \in {"readProfile", "readUsage", "callClaude", "rpc"}
         => (inv[p].user \in Users /\ inv[p].user = inv[p].authHeader)

\* C4 witness: a token the provider rejects was answered 401
C4_Witness ==
  /\ Answered /\ last.authHeader = BadToken /\ last.status = 401
  /\ last.error = "Invalid or expired token"

\* the count of the key an answered invocation read, as it was at the read,
\* when no other invocation overlapped with it
CountAtRead ==
  Count(api_usage, last.user, last.today)
    - (IF last.charged = 1 /\ last.p_date = last.today THEN 1 ELSE 0)

\* C5: with the requests handled one at a time and the reads of api_usage and
\* the increments succeeding, no stored count exceeds the ceiling of the
\* user's tier; a request that meets a count at the ceiling is rejected with
\* 429 and remaining 0 without a model-backend call; a success of a free-tier
\* user with 4 counted requests carries remaining 0.
C5_SerialWithinCeiling ==
  /\ \A k \in Keys : Count(api_usage, k[1], k[2]) <= CeilingOf(k[1])
  /\ (Answered /\ last.reads = 2 /\ CountAtRead >= CeilingOf(last.user))
       => /\ last.status = 429
          /\ last.hasRemaining /\ last.respRemaining = 0
          /\ last.calls = 0
  /\ (Answered /\ last.status = 200 /\ CeilingOf(last.user) = 5
        /\ CountAtRead = 4)
       => last.respRemaining = 0

\* C5 witness: the 6th request of a free-tier user is rejected after the 5th
\* was answered with success
C5_Witness ==
  /\ Answered /\ last.status = 429 /\ last.calls = 0
  /\ CeilingOf(last.user) = 5
  /\ prior[last.user][last.today] = 4
  /\ rpcApplied[last.user][last.today] = 1
  /\ Count(api_usage, last.user, last.today) = 5

\* C6: with at most N invocations in flight at the same time the stored
\* count stays within ceiling + N - 1 and no invocation is charged twice.
\* Stated for the runs of SpecSerial, where N = 1: the count stays within the
\* ceiling.
C6_OvershootWithinConcurrency ==
  /\ \A k \in Keys : Count(api_usage, k[1], k[2]) <= CeilingOf(k[1]) + 1 - 1
  /\ last.charged <= 1

\* C7: increment_api_usage loses no update: for every key the stored count
\* is the count the key started with plus the number of increment calls that
\* ran, whatever the interleaving of the calls.
C7_NoLostUpdates ==
  \A k \in Keys :
    Count(api_usage, k[1], k[2]) = prior[k[1]][k[2]] + rpcApplied[k[1]][k[2]]

\* C7 witness: two invocations that both read the key without a row both
\* incremented it: the first call created the row, the second updated it
C7_Witness ==
  /\ Answered /\ last.charged = 1 /\ last.today = last.p_date
  /\ prior[last.user][last.p_date] = 0
  /\ last.currentCount = 0
  /\ rpcApplied[last.user][last.p_date] = 2
  /\ Count(api_usage, last.user, last.p_date) = 2

\* at most one row per (user_id, date), no negative request_count
OneRowPerKey ==
  /\ \A r1, r2 \in api_usage :
       (r1.user_id = r2.user_id /\ r1.date = r2.date) => r1 = r2
  /\ \A r \in api_usage : r.request_count >= 0

\* every row is still there after the step, with a count not below its own
RowsKept ==
  \A r \in api_usage :
    \E r2 \in api_usage' :
      /\ r2.id = r.id /\ r2.user_id = r.user_id /\ r2.date = r.date
      /\ r2.request_count >= r.request_count

\* C8: api_usage holds at most one row per (user_id, date) in every state;
\* no step deletes a row or lowers a request_count, and no count is
\* negative.
C8_OneRowMonotone == []OneRowPerKey /\ [][RowsKept]_vars

\* C8 witness: a user has the row of the first day and a row created and
\* then incremented on the second day
C8_Witness ==
  \E r1, r2 \in api_usage :
    /\ r1.user_id = r2.user_id /\ r1.date = 1 /\ r2.date = 2
    /\ r2.request_count = 2

\* C9: while checkRateLimit waits for the usage read, the ceiling it will
\* apply is 100 if the profile was read and its tier is exactly "pro", and 5
\* in every other case (another string, NULL, an unreadable profile).
C9_CeilingByTier ==
  \A p \in Procs :
    inv[p].pc = "readUsage"
      => inv[p].dailyLimit =
           (IF ~inv[p].profileNull /\ profiles[inv[p].user] = "pro"
            THEN 100 ELSE 5)

\* C9 witness: a profile whose tier is a string other than "pro" and "free"
\* gets the ceiling 5
C9_Witness ==
  \E p \in Procs :
    /\ inv[p].pc = "readUsage" /\ ~inv[p].profileNull
    /\ profiles[inv[p].user] = "Pro" /\ inv[p].dailyLimit = 5

\* C10: a 200 response carries remaining = ceiling - (count_before + 1), with
\* the ceiling and the count that the admission check of the invocation
\* used.
C10_RemainingOnSuccess ==
  (Answered /\ last.status = 200)
    => /\ last.hasRemaining
       /\ last.respRemaining = last.dailyLimit - (last.currentCount + 1)
       /\ last.dailyLimit \in {CeilingOf(last.user), 5}

\* C10 witness: a pro user one request short of the ceiling is answered with
\* remaining 0
C10_Witness ==
  /\ Answered /\ last.status = 200
  /\ last.dailyLimit = 100 /\ last.currentCount = 99
  /\ last.respRemaining = 0

\* C11: an invocation that got as far as incrementUsage (its model-backend
\* call succeeded and the output was parsed) is answered 200 with the parsed
\* data, whether the increment_api_usage call reports an error in its result
\* or throws.
C11_IncrementFailureKeepsSuccess ==
  (Answered /\ last.p_date # NoDate)
    => (last.status = 200 /\ last.parsed /\ JsonParses(last.data))

\* the call of a wrapped function settles with a 503-coded RetryableError
Is503(o) == ~o.ok /\ o.error.re /\ o.error.statusCode = 503

\* the wrapped function fails with a 503-coded error on its first k calls
\* and succeeds on call k + 1
FailsThenSucceeds(script, k) ==
  /\ k + 1 \in DOMAIN script
  /\ \A i \in 1..k : Is503(script[i])
  /\ script[k + 1].ok

\* C12: for every k < maxRetries, around a function that fails with a
\* 503-coded RetryableError on its first k calls and succeeds on call k + 1,
\* withRetry never raises, never calls the function more than k + 1 times,
\* and when it has returned it returns the value of call k + 1 after exactly
\* k + 1 calls.
C12_RetryUntilSuccess ==
  (cl.fn = "script" /\ cl.pc # "idle")
    => \A k \in 0..(cl.maxRetries - 1) :
         FailsThenSucceeds(cl.script, k)
           => /\ cl.pc # "raised"
              /\ cl.calls <= k + 1
              /\ cl.pc = "returned"
                   => (cl.value = cl.script[k + 1].value /\ cl.calls = k + 1)

\* C12 witness: the function failed with 503 once and withRetry returned the
\* value of the second call
C12_Witness ==
  /\ cl.fn = "script" /\ cl.pc = "returned" /\ cl.maxRetries = 2
  /\ FailsThenSucceeds(cl.script, 1)
  /\ cl.calls = 2 /\ cl.sleeps = 1 /\ cl.value = cl.script[2].value

\* the call of a wrapped function settles with a 429-coded RetryableError
\* whose isRetryable flag is false
Is429NotRetryable(o) ==
  ~o.ok /\ o.error.re /\ o.error.statusCode = 429 /\ ~o.error.isRetryable

\* C13: around a function that always fails with a 429-coded error whose
\* isRetryable flag is false, withRetry calls the function once, never
\* sleeps, and raises the error of that call; and once the gateway has
\* answered a request of callEdgeFunction with 429, the call is raised with
\* that non-retryable 429 error and nothing more is sent: a 429 for the first
\* request leaves exactly one request sent.
C13_QuotaErrorNotRetried ==
  /\ (cl.fn = "script" /\ cl.pc # "idle"
        /\ \A i \in DOMAIN cl.script : Is429NotRetryable(cl.script[i]))
       => /\ cl.calls = 1 /\ cl.sleeps = 0
          /\ cl.pc \in {"fn", "raised"}
          /\ cl.pc = "raised" => cl.lastError = cl.script[1].error
  /\ (cl.fn = "edge" /\ cl.kind = "QuotaExceeded")
       => /\ cl.pc = "raised"
          /\ cl.lastError.re /\ cl.lastError.statusCode = 429
          /\ ~cl.lastError.isRetryable
          /\ ~cl.timeoutId
          /\ cl.attempt = 0 => (cl.calls = 1 /\ cl.sent = 1 /\ cl.sleeps = 0)

\* C13 witness: the gateway rejected the first request of a call of a user
\* at the ceiling with 429, and callEdgeFunction raised after that one request
C13_Witness ==
  /\ cl.fn = "edge" /\ cl.kind = "QuotaExceeded" /\ cl.pc = "raised"
  /\ cl.calls = 1 /\ cl.sent = 1 /\ started = 1
  /\ last.status = 429
  /\ Count(api_usage, last.user, last.today) >= last.dailyLimit

\* the call of a wrapped function settles with an error withRetry takes as
\* retryable
FailsRetryable(o) ==
  /\ ~o.ok
  /\ o.error.re => o.error.isRetryable
  /\ o.error.re => (o.error.statusCode = NoStatus
                     \/ o.error.statusCode \in RetryableStatuses)

\* C14: withRetry with maxRetries = m >= 0 calls the wrapped function at most
\* m + 1 times and sleeps at most m times; if every call fails with a
\* retryable error it does not return, and when it has raised it has made
\* exactly m + 1 calls and m sleeps and raises the error of call m + 1;
\* callEdgeFunction (m = 2) makes at most 3 fetches and the gateway receives
\* at most 3 requests of the call.
C14_RetryBounded ==
  /\ cl.calls <= cl.maxRetries + 1
  /\ cl.sleeps <= cl.maxRetries
  /\ (cl.fn = "script" /\ cl.pc # "idle"
        /\ \A i \in 1..(cl.maxRetries + 1) : FailsRetryable(cl.script[i]))
       => /\ cl.pc # "returned"
          /\ cl.pc = "raised"
               => /\ cl.calls = cl.maxRetries + 1
                  /\ cl.sleeps = cl.maxRetries
                  /\ cl.lastError = cl.script[cl.maxRetries + 1].error
  /\ cl.fn = "edge"
       => /\ cl.pc \in {"fn", "sleep", "returned"} => cl.maxRetries = EdgeMaxRetries
          /\ cl.calls <= 3 /\ cl.sent <= cl.calls /\ started <= 3

\* C14 witness: the gateway answered all 3 requests of a callEdgeFunction
\* call with 500; the call slept twice and raised the error of the third
C14_Witness ==
  /\ cl.fn = "edge" /\ cl.pc = "raised"
  /\ cl.calls = 3 /\ cl.sent = 3 /\ started = 3 /\ cl.sleeps = 2
  /\ cl.lastError.re /\ cl.lastError.statusCode = 500
  /\ last.status = 500 /\ cl.lastError.message = last.error

\* the failures of the gateway the client is not to recover by a retry
NotRecovered ==
  {"Unauthenticated", "InvalidRequest", "QuotaExceeded", "MalformedModelOutput"}

\* C15: once the gateway has answered a request of callEdgeFunction with a
\* failure of kind Unauthenticated, InvalidRequest, QuotaExceeded or
\* MalformedModelOutput, the call is raised without a sleep and without a
\* further request: such a failure of the first request leaves the gateway
\* contacted exactly once.
C15_PermanentFailuresNotRetried ==
  (cl.fn = "edge" /\ cl.kind \in NotRecovered)
    => /\ cl.pc = "raised"
       /\ cl.attempt = 0 => (cl.sent = 1 /\ cl.calls = 1 /\ cl.sleeps = 0)

\* C16: once the gateway has answered a request of callEdgeFunction with the
\* failure of a model-backend call that the backend refused with a status
\* that is not transient (400, 401), the call is raised and the client makes
\* no further attempt.
C16_PermanentBackendErrorNotRetried ==
  (cl.fn = "edge" /\ cl.kind = "ModelBackendError"
     /\ cl.lastError.message \in {ClaudeApiError(400), ClaudeApiError(401)})
    => cl.pc = "raised"

\* C17: once the caller has aborted its signal, during a fetch or during a
\* sleep of withRetry, the call has failed: no fetch of it is in flight, no
\* further attempt is started, and neither the timer of fetchWithTimeout nor
\* a sleep of withRetry is scheduled.
C17_CallerAbortEndsCall ==
  cl.callerAborted
    => /\ cl.pc = "raised"
       /\ ~cl.timeoutId

\* a callEdgeFunction call that has started ends
ClientTerminates ==
  (cl.fn = "edge" /\ cl.pc \in {"fn", "sleep"})
    ~> (cl.pc \in {"returned", "raised"})

\* an invocation that waits for the model backend is answered
GatewayAnswers ==
  \A p \in Procs : (inv[p].pc = "callClaude") ~> (inv[p].pc # "callClaude")

\* C18: every operation terminates: a gateway invocation that waits for the
\* model backend eventually sends its response, also when the backend never
\* answers, and a callEdgeFunction call eventually returns or raises, also
\* when the gateway never answers.
C18_EveryOperationTerminates == GatewayAnswers /\ ClientTerminates

C20_ResetByDateRollover ==
  (Answered /\ last.reads = 2)
    => /\ last.currentCount = CountAtRead
       /\ last.allowed = (CountAtRead < last.dailyLimit)
       /\ last.status = 429 <=> ~last.allowed
       /\ (CountAtRead = 0 /\ last.today > 1) => last.allowed

\* C20 witness: a user whose count of the first day is at the ceiling was
\* admitted and answered 200 on the second day, the row of the first day
\* still at the ceiling
C20_Witness ==
  /\ Answered /\ last.status = 200 /\ last.today = 2 /\ last.p_date = 2
  /\ last.currentCount = 0
  /\ Count(api_usage, last.user, 1) = last.dailyLimit
  /\ Count(api_usage, last.user, 2) = 1

\* the number of increment_api_usage executions for user u, over all dates
RECURSIVE ChargesUpTo(_, _)
ChargesUpTo(u, d) ==
  IF d = 0 THEN 0 ELSE rpcApplied[u][d] + ChargesUpTo(u, d - 1)

\* C21: across all attempts that withRetry makes for one callEdgeFunction
\* call the usage counter of the user is incremented at most once, also when
\* an attempt timed out in the client while the gateway went on with it.
C21_RetriedCallChargedOnce ==
  cl.fn = "edge" => \A u \in Users : ChargesUpTo(u, MaxDate) <= 1

\* C22: in withRetry a failed call number n + 1 with n < maxRetries is
\* followed by a sleep and another call if and only if the error's
\* isRetryable flag is true (taken as true for an error that is not a
\* RetryableError) and the error carries no status code or one of 408, 429,
\* 500, 502, 503, 504; an error with another status at the first call is
\* raised after exactly one call.
C22_RetryClassification ==
  (cl.fn = "script" /\ cl.pc # "idle")
    => /\ \A n \in 0..(cl.maxRetries - 1) :
            /\ cl.calls >= n + 2 => FailsRetryable(cl.script[n + 1])
            /\ (cl.calls = n + 1 /\ cl.pc = "sleep")
                 => FailsRetryable(cl.script[n + 1])
            /\ (cl.calls = n + 1 /\ cl.pc = "raised")
                 => (~cl.script[n + 1].ok /\ ~FailsRetryable(cl.script[n + 1]))
            /\ (cl.calls = n + 1 /\ cl.pc = "returned") => cl.script[n + 1].ok
       /\ (~cl.script[1].ok /\ cl.script[1].error.re
             /\ cl.script[1].error.statusCode \in {400, 401, 403, 404})
            => (cl.calls = 1 /\ cl.sleeps = 0 /\ cl.pc \in {"fn", "raised"})

\* C22 witness: the first call failed with a TimeoutError and was followed
\* by a second call, which failed with status 401 and was raised at once
C22_Witness ==
  /\ cl.fn = "script" /\ cl.pc = "raised" /\ cl.maxRetries = 2
  /\ cl.script[1] = FnThrow(PlainError("TimeoutError"))
  /\ cl.script[2] = FnThrow(RetryableError("HTTP 401", 401, TRUE))
  /\ cl.calls = 2 /\ cl.sleeps = 1
  /\ cl.lastError = cl.script[2].error

\* calculateDelay is called for an attempt index with delay options
InitDelay ==
  /\ inv = [p \in Procs |-> Idle]
  /\ last = Idle
  /\ profiles = [u \in Users |-> "free"]
  /\ prior = [u \in Users |-> [d \in Dates |-> 0]]
  /\ api_usage = {}
  /\ nextId = NumUsers + 1
  /\ clock = 1
  /\ started = 0
  /\ backendOk = prior
  /\ rpcApplied = [u \in Users |-> [d \in Dates |-> 0]]
  /\ \E n \in 0..MaxAttempt, o \in DelayOptions :
       cl = [NewCall EXCEPT !.fn = "calculateDelay", !.pc = "fn",
                            !.attempt = n, !.opts = o]
  /\ tables = NoRows
  /\ save = NewSave

\* calculateDelay returns, Math.random() having returned r / RandomSteps
CalculateDelayReturns(r) ==
  /\ cl.fn = "calculateDelay" /\ cl.pc = "fn"
  /\ cl' = [cl EXCEPT !.pc = "returned",
                      !.delay = CalculateDelay(cl.attempt, cl.opts, r)]

NextDelay == \E r \in RandomDraws : CalculateDelayReturns(r) /\ UNCHANGED <<gvars, svars>>

\* calculateDelay alone, for every attempt index, option set and jitter draw
SpecDelay == InitDelay /\ [][NextDelay]_vars

\* C23: for every attempt index n and every jitter draw the delay that
\* calculateDelay returns lies between min(initialDelayMs * multiplier^n,
\* maxDelayMs) and min(1.3 * initialDelayMs * multiplier^n, maxDelayMs), so
\* it never exceeds maxDelayMs, which is 10000 ms by default, with
\* initialDelayMs 1000 and multiplier 2.
C23_DelayWithinBounds ==
  /\ DefaultOptions =
       [initialDelayMs |-> 1000, maxDelayMs |-> 10000, backoffMultiplier |-> 2]
  /\ (cl.fn = "calculateDelay" /\ cl.pc = "returned")
       => LET base == cl.opts.initialDelayMs
                        * Pow(cl.opts.backoffMultiplier, cl.attempt)
          IN /\ Min(base, cl.opts.maxDelayMs) <= cl.delay
             /\ 10 * cl.delay <= Min(13 * base, 10 * cl.opts.maxDelayMs)
             /\ cl.delay <= cl.opts.maxDelayMs

\* C23 witness: with the default options, attempt 3 and a jitter draw of 0.9
\* the sum 8000 + 2160 is capped at 10000
C23_Witness ==
  /\ cl.fn = "calculateDelay" /\ cl.pc = "returned"
  /\ cl.opts = DefaultOptions /\ cl.attempt = 3
  /\ cl.delay = 10000

\* the timer of fetchWithTimeout is scheduled exactly while its fetch is in
\* flight
TimerWhileInFlight ==
  cl.fn = "edge" => (cl.timeoutId <=> cl.pc = "fn")

\* a step in which the running fetch ends with a TimeoutError: the wrapped
\* function is left without a response of the gateway and without a network
\* error
TimesOut ==
  /\ cl.fn = "edge" /\ cl.pc = "fn" /\ cl'.pc # "fn"
  /\ last'.pc # "done"
  /\ cl'.lastError = PlainError("TimeoutError")

\* C24: fetchWithTimeout bounds each network call: while the fetch is in
\* flight the timer is scheduled; a TimeoutError is raised only by the firing
\* of that timer, the fetch is then no longer in flight, and withRetry takes
\* the error as retryable (it sleeps when attempt < maxRetries, else raises
\* it); on every exit path the timer is cleared, so no timer is scheduled
\* once the call has returned.
C24_TimeoutBoundsFetch ==
  /\ []TimerWhileInFlight
  /\ [][ TimesOut
         => /\ cl.timeoutId /\ ~cl'.timeoutId /\ cl'.slot = 0
            /\ cl'.pc = (IF cl.attempt < cl.maxRetries THEN "sleep"
                         ELSE "raised")
            /\ inv' = inv ]_vars

\* C24 witness: the first fetch timed out while the gateway was handling its
\* request, the second was answered, and no timer is left
C24_Witness ==
  /\ cl.fn = "edge" /\ cl.pc = "returned" /\ ~cl.timeoutId
  /\ cl.lastError = PlainError("TimeoutError")
  /\ cl.calls = 2 /\ cl.sleeps = 1 /\ cl.sent = 2
  /\ \E p \in Procs : InFlight(inv[p])

\* the number of "{" minus the number of "}" in text[i..j]
Depth(text, i, j) ==
  Cardinality({n \in i..j : text[n] = "{"})
    - Cardinality({n \in i..j : text[n] = "}"})

\* the first top-level {...} span of a text: from the first "{" to the "}"
\* that closes it, or no span
FirstTopLevelSpan(text) ==
  LET opens == Positions(text, "{")
  IN IF opens = {} THEN NoMatch
     ELSE LET first == SetMin(opens)
              closes == {j \in Positions(text, "}") :
                           j > first /\ Depth(text, first, j) = 0}
          IN IF closes = {} THEN NoMatch
             ELSE SubSeq(text, first, SetMin(closes))

\* the model backend answered the invocation with a text
GotText(s) ==
  /\ s.pc = "done" /\ s.gotOk /\ s.calls = 1
  /\ s.error # "Cannot read properties of undefined"

\* an output without a {...} span, or whose extracted span does not parse,
\* fails with MalformedModelOutput after the one call of the model backend
MalformedFails ==
  (GotText(last) /\ last.p_date = NoDate)
    => /\ last.status = 500 /\ FailureKind(last) = "MalformedModelOutput"
       /\ (JsonMatch(last.text) = NoMatch \/ ~JsonParses(JsonMatch(last.text)))
       /\ last.calls = 1 /\ last.charged = 0

\* C25: the gateway extracts the first top-level {...} span of the model's
\* text: when that span is a valid JSON object (prose, the object, trailing
\* prose) the request is answered with exactly that object as data; when the
\* text holds no {...} span or the extracted span does not parse, the request
\* fails with MalformedModelOutput and the model backend is not called again.
C25_FirstTopLevelSpan ==
  /\ (GotText(last) /\ JsonParses(FirstTopLevelSpan(last.text)))
       => (last.p_date # NoDate /\ last.data = FirstTopLevelSpan(last.text))
  /\ (GotText(last) /\ FirstTopLevelSpan(last.text) = NoMatch)
       => (last.status = 500 /\ last.error = "No JSON found in response")
  /\ MalformedFails

\* a parsed body without the fields its action requires: imageBase64 and
\* mimeType for parse_wod, workout for generate_strategy, or with another
\* action
LacksRequiredFields(body) ==
  /\ body.json
  /\ \/ body.action = "parse_wod" /\ (~body.imageBase64 \/ ~body.mimeType)
     \/ body.action = "generate_strategy" /\ ~body.workout
     \/ body.action \notin {"parse_wod", "generate_strategy"}

\* C26: an admitted request whose action is parse_wod but lacks imageBase64
\* or mimeType, whose action is generate_strategy but lacks workout, or whose
\* action is neither, fails with InvalidRequest: the model backend is not
\* called for it and it does not increment the usage counter.
C26_DispatchValidation ==
  /\ \A p \in Procs :
       inv[p].pc \in {"callClaude", "rpc"} => ~LacksRequiredFields(inv[p].body)
  /\ (Answered /\ last.allowed /\ LacksRequiredFields(last.body))
       => /\ last.status = 500 /\ FailureKind(last) = "InvalidRequest"
          /\ last.calls = 0 /\ last.charged = 0

\* ---- actions of the saves ----
\* saveMovementSkills / saveStrengthNumbers is called
SaveCalled(table, input, configured) ==
  /\ save.pc = "idle"
  /\ save' = SaveCall(table, input, configured, tables[table])
  /\ UNCHANGED tables

\* getCurrentUser returns; with a user the delete of an empty save or the
\* upsert is sent
GetCurrentUserReturns(u) ==
  /\ save.pc = "getCurrentUser"
  /\ save' = IF u = NoUser THEN SaveReturns(save, "User not authenticated")
             ELSE IF Len(save.input) = 0
             THEN [save EXCEPT !.pc = "deleteAll", !.user = u]
             ELSE [save EXCEPT !.pc = "upsert", !.user = u]
  /\ UNCHANGED tables

\* the delete of an empty save settles
DeleteAllSettles(fails) ==
  /\ save.pc = "deleteAll"
  /\ tables' = IF fails THEN tables
               ELSE [tables EXCEPT ![save.table] = DeleteAll(@, save.user)]
  /\ save' = SaveReturns(save, IF fails THEN "deleteError" ELSE "")

\* the upsert settles; after a success the cleanup delete is sent
UpsertSettles(fails) ==
  /\ save.pc = "upsert"
  /\ LET upsertError == fails \/ HasDuplicates(save.input)
     IN /\ tables' = IF upsertError THEN tables
                     ELSE [tables EXCEPT
                             ![save.table] = Upsert(@, save.user, save.input)]
        /\ save' = IF upsertError THEN SaveReturns(save, "upsertError")
                   ELSE [save EXCEPT !.pc = "cleanup", !.upserted = TRUE]

\* the cleanup delete settles: the database reads the list of the filter and
\* deletes the rows of the user whose name is not in it
CleanupSettles(fails) ==
  /\ save.pc = "cleanup"
  /\ LET list == ParseList(NotInList(save.input), 1, {})
         cleanupError == fails \/ ~list.ok
     IN /\ tables' = IF cleanupError THEN tables
                     ELSE [tables EXCEPT
                             ![save.table] =
                               DeleteNotIn(@, save.user, list.values)]
        /\ save' = IF cleanupError THEN SaveReturns(save, "cleanupError")
                   ELSE [SaveReturns(save, "") EXCEPT !.cleaned = TRUE]

NextSave ==
  \/ \E table \in TableNames, input \in SaveInputs, configured \in BOOLEAN :
       SaveCalled(table, input, configured) /\ UNCHANGED <<gvars, cl>>
  \/ \E u \in Users \cup {NoUser} :
       GetCurrentUserReturns(u) /\ UNCHANGED <<gvars, cl>>
  \/ \E fails \in BOOLEAN : DeleteAllSettles(fails) /\ UNCHANGED <<gvars, cl>>
  \/ \E fails \in BOOLEAN : UpsertSettles(fails) /\ UNCHANGED <<gvars, cl>>
  \/ \E fails \in BOOLEAN : CleanupSettles(fails) /\ UNCHANGED <<gvars, cl>>

\* the tables hold any rows with names the validation accepts
InitSave ==
  /\ inv = [p \in Procs |-> Idle]
  /\ last = Idle
  /\ profiles = [u \in Users |-> "free"]
  /\ prior = [u \in Users |-> [d \in Dates |-> 0]]
  /\ api_usage = {}
  /\ nextId = NumUsers + 1
  /\ clock = 1
  /\ started = 0
  /\ backendOk = prior
  /\ rpcApplied = [u \in Users |-> [d \in Dates |-> 0]]
  /\ cl = NewCall
  /\ tables \in [TableNames ->
                   SUBSET {Row(u, n) : u \in Users, n \in SaveNames \ {<<>>}}]
  /\ save = NewSave

\* one save at a time, no other writer of the tables
SpecSave == InitSave /\ [][NextSave]_vars

\* the names of the rows user u has in the table of the save
StoredNames(rows, u) == {r.name : r \in RowsOfUser(rows, u)}

\* C27: during a save with a non-empty input the stored rows of the user are
\* never all absent (they are there after the upsert, and a user who had rows
\* has rows at every step); if the upsert fails no row that was there has been
\* deleted; and if both steps succeed, with no concurrent writer, the stored
\* key set is exactly the key set of the input.
C27_UpsertThenCleanup ==
  (save.pc \in {"upsert", "cleanup", "done"} /\ Len(save.input) > 0
     /\ save.user # NoUser)
    => LET now == StoredNames(tables[save.table], save.user)
           was == StoredNames(save.before, save.user)
       IN /\ was # {} => now # {}
          /\ save.upserted => now # {}
          /\ (save.pc = "done" /\ save.error = "upsertError") => was \subseteq now
          /\ (save.pc = "done" /\ save.error = "") => now = Range(save.input)

\* C28: within one invocation the increment is applied to the (user, date)
\* key whose count the admission check read, also when the invocation spans
\* a UTC midnight.
C28_IncrementOnKeyRead ==
  /\ \A p \in Procs : inv[p].pc = "rpc" => inv[p].p_date = inv[p].today
  /\ (Answered /\ last.charged = 1) => last.p_date = last.today

\* C29: admission fails open on a failed read of api_usage: when the query
\* for today's row returns an error or no row, checkRateLimit takes the
\* count as 0, allows the request, and returns the full ceiling of the tier
\* as remaining, whatever count is stored; a failed read never rejects the
\* request or fails it.
C29_ReadErrorFailsOpen ==
  [][ \A p \in Procs :
        (inv[p].pc = "readUsage" /\ inv'[p] # inv[p])
          => LET s == IF inv'[p].pc = "idle" THEN last' ELSE inv'[p]
                 rows == RowsOf(api_usage, inv[p].user, inv[p].today)
             IN /\ s.reads = 2
                /\ s.currentCount = 0
                     => /\ s.allowed /\ s.remaining = s.dailyLimit
                        /\ s.status # 429
                /\ rows = {} => s.currentCount = 0
                /\ (s.currentCount # Count(api_usage, inv[p].user, inv[p].today))
                     => (s.currentCount = 0 /\ s.allowed
                         /\ s.remaining = inv[p].dailyLimit) ]_vars

\* C29 witness: the read of the row of a user at the ceiling failed, and the
\* request was admitted with the full ceiling as remaining
C29_Witness ==
  \E p \in Procs :
    /\ inv[p].pc = "callClaude" /\ inv[p].currentCount = 0
    /\ inv[p].allowed /\ inv[p].remaining = inv[p].dailyLimit
    /\ Count(api_usage, inv[p].user, inv[p].today) >= inv[p].dailyLimit

\* C30: every response that carries a remaining value carries one with
\* 0 <= remaining < ceiling of the tier, under every interleaving of the
\* requests of a user, also when the stored count has overshot the ceiling.
C30_RemainingInRange ==
  (Answered /\ last.hasRemaining)
    => /\ 0 <= last.respRemaining
       /\ last.respRemaining < last.dailyLimit
       /\ last.dailyLimit <= CeilingOf(last.user)
       /\ last.status \in {200, 429}

\* C30 witness: overlapping requests of a user have taken the stored count
\* above the ceiling, and a request that read the overshot count is answered
\* 429 with remaining 0
C30_Witness ==
  /\ Answered /\ last.status = 429 /\ last.hasRemaining /\ last.respRemaining = 0
  /\ last.dailyLimit = CeilingOf(last.user)
  /\ last.currentCount > last.dailyLimit
  /\ Count(api_usage, last.user, last.today) > CeilingOf(last.user)

====
